---- MODULE Spec2Model ----
(***************************************************************************)
(* Retrieval subsystem of the GuideBot chat assistant.                     *)
(*                                                                         *)
(* src/lib/reports.ts keeps three module-level variables (reports,         *)
(* embeddingsModel, isLoaded) and exports two async functions,             *)
(* loadReports() and retrieveRelevantReports(query, topK).                 *)
(* src/app/api/chat/route.ts wraps loadReports() in init(), guarded by a   *)
(* module-level flag `initialized`, and its POST handler calls init() and  *)
(* retrieveRelevantReports(query, 3) and builds the response.              *)
(*                                                                         *)
(* Node runs the functions on one thread: the code between two `await`s    *)
(* is atomic, and every `await` is a point where another request may run.  *)
(* Each action below is one such atomic stretch of one call.               *)
(***************************************************************************)
EXTENDS Integers, Sequences, FiniteSets, TLC

(***************************************************************************)
(* Bounds of the model.                                                    *)
(***************************************************************************)
\* number of lines of the corpus file
MaxLines == 2
\* number of calls (loadReports / init / retrieveRelevantReports) per run
MaxCalls == 3

\* the request contexts that may be in flight at the same time
Callers == {1, 2}

(***************************************************************************)
(* Program constants.                                                      *)
(***************************************************************************)
\* reports.ts:118  const batchSize: number = 5
batchSize == 5

(***************************************************************************)
(* Text.  A string is a sequence of characters; " " is whitespace.         *)
(***************************************************************************)
RECURSIVE TrimStart(_)
TrimStart(s) ==
    IF s = <<>> THEN <<>>
    ELSE IF Head(s) = " " THEN TrimStart(Tail(s)) ELSE s

RECURSIVE TrimEnd(_)
TrimEnd(s) ==
    IF s = <<>> THEN <<>>
    ELSE IF s[Len(s)] = " " THEN TrimEnd(SubSeq(s, 1, Len(s) - 1)) ELSE s

\* String.prototype.trim
Trim(s) == TrimEnd(TrimStart(s))

(***************************************************************************)
(* The corpus file: whether IRReports_DEID.jsonl exists, and the sequence  *)
(* of its lines after split("\n").  A line is empty, is not                *)
(* JSON ("bad"), or is a JSON object with the fields ContentText and text  *)
(* (an absent field and an empty string are both falsy for `||`, and both  *)
(* are written <<>>).                                                      *)
(***************************************************************************)
NoFile == [exists |-> FALSE, lines |-> <<>>]

EmptyLine == [kind |-> "empty", ContentText |-> <<>>, text |-> <<>>]
BadLine   == [kind |-> "bad",   ContentText |-> <<>>, text |-> <<>>]
Rec(ct, t) == [kind |-> "rec", ContentText |-> ct, text |-> t]

\* the lines the corpus file is built from
FileLines ==
    { BadLine,
      Rec(<<"a">>, <<"b">>),
      Rec(<<>>, <<" ", "b">>),
      Rec(<<" ">>, <<"a">>) }

RECURSIVE SeqsUpTo(_, _)
SeqsUpTo(S, n) ==
    IF n = 0 THEN {<<>>}
    ELSE LET shorter == SeqsUpTo(S, n - 1)
         IN  shorter \cup {Append(s, x) : s \in {t \in shorter : Len(t) = n - 1}, x \in S}

Files == {NoFile} \cup {[exists |-> TRUE, lines |-> ls] : ls \in SeqsUpTo(FileLines, MaxLines)}

\* reports.ts:63  .split("\n").filter(Boolean): empty lines are dropped
\* before the lines are numbered
RECURSIVE FilterBoolean(_)
FilterBoolean(ls) ==
    IF ls = <<>> THEN <<>>
    ELSE IF Head(ls).kind = "empty" THEN FilterBoolean(Tail(ls))
         ELSE <<Head(ls)>> \o FilterBoolean(Tail(ls))

\* the fields tried in the other order, obj.text || obj.ContentText || ""
PickText_TextFirst(obj) ==
    IF obj.text # <<>> THEN obj.text
    ELSE IF obj.ContentText # <<>> THEN obj.ContentText
    ELSE <<>>

\* reports.ts:69  obj.ContentText || obj.text || ""
PickText(obj) ==
    IF obj.ContentText # <<>> THEN obj.ContentText
    ELSE IF obj.text # <<>> THEN obj.text
    ELSE <<>>

\* reports.ts:66-82  the map callback: one line to a Report or null.
\* NullReport stands for null; index is the 0-based position of the line.
NullReport == [id |-> -1, text |-> <<>>, embedding |-> <<>>]

\* the index of the line not used: every report gets the same id
ParseLine_SameId(line, index) ==
    IF line.kind = "bad" THEN NullReport
    ELSE LET text == PickText(line)
         IN  IF Trim(text) = <<>> THEN NullReport
             ELSE [id |-> 0, text |-> Trim(text), embedding |-> <<>>]

ParseLine(line, index) ==
    IF line.kind = "bad" THEN NullReport
    ELSE LET text == PickText(line)
         IN  IF Trim(text) = <<>> THEN NullReport
             ELSE [id |-> index, text |-> Trim(text), embedding |-> <<>>]

\* the map stopped at the first line that does not parse
RECURSIVE ParseFrom_StopsAtBadLine(_, _)
ParseFrom_StopsAtBadLine(lines, index) ==
    IF index >= Len(lines) THEN <<>>
    ELSE IF lines[index + 1].kind = "bad" THEN <<>>
    ELSE LET r == ParseLine(lines[index + 1], index)
         IN  IF r = NullReport THEN ParseFrom_StopsAtBadLine(lines, index + 1)
             ELSE <<r>> \o ParseFrom_StopsAtBadLine(lines, index + 1)

\* reports.ts:65-83  lines.map(...).filter(report => report !== null)
RECURSIVE ParseFrom(_, _)
ParseFrom(lines, index) ==
    IF index >= Len(lines) THEN <<>>
    ELSE LET r == ParseLine(lines[index + 1], index)
         IN  IF r = NullReport THEN ParseFrom(lines, index + 1)
             ELSE <<r>> \o ParseFrom(lines, index + 1)

ParseReports(fileLines) == ParseFrom(FilterBoolean(fileLines), 0)

(***************************************************************************)
(* The embedding model.  embeddingsModel(text, {pooling:'mean',            *)
(* normalize:true}) is a deterministic function of the text that returns   *)
(* a unit vector; cosine similarity does not depend on the length of its   *)
(* arguments, so a vector is represented by an integer vector of the same  *)
(* direction.  Every text, the empty one included, has a non-zero vector.  *)
(***************************************************************************)
CharVec(ch) ==
    CASE ch = "a" -> <<2, 0>>
      [] ch = "b" -> <<0, 2>>
      [] ch = "c" -> <<-2, 0>>
      [] OTHER    -> <<0, 0>>

RECURSIVE SumVec(_)
SumVec(s) ==
    IF s = <<>> THEN <<1, 1>>
    ELSE LET v == CharVec(Head(s))
             w == SumVec(Tail(s))
         IN  <<v[1] + w[1], v[2] + w[2]>>

\* the model called without pooling: one vector for the start token and one
\* for every character, flattened
RECURSIVE EmbedVec_Unpooled(_)
EmbedVec_Unpooled(text) ==
    IF text = <<>> THEN <<1, 1>>
    ELSE EmbedVec_Unpooled(SubSeq(text, 1, Len(text) - 1)) \o CharVec(text[Len(text)])

\* reports.ts:132-138 and 195-200  Array.from(embedding.data)
EmbedVec(text) == SumVec(text)

(***************************************************************************)
(* Cosine similarity (reports.ts:4, package cosine-similarity):            *)
(* dot(a,b) / |a| / |b|.  The score of a report is kept exactly, as the    *)
(* pair (dot, |a|^2 * |b|^2) that stands for dot / sqrt(|a|^2 * |b|^2);    *)
(* it is NaN (0/0) when one of the vectors is zero.                        *)
(***************************************************************************)
Min(a, b) == IF a <= b THEN a ELSE b
Max(a, b) == IF a >= b THEN a ELSE b

RECURSIVE Dot(_, _)
Dot(a, b) ==
    IF a = <<>> \/ b = <<>> THEN 0
    ELSE Head(a) * Head(b) + Dot(Tail(a), Tail(b))

cosineSimilarity(a, b) == [dot |-> Dot(a, b), nn |-> Dot(a, a) * Dot(b, b)]

IsNaN(s) == s.nn = 0

\* sign(dot) * dot^2 / nn is a strictly increasing function of dot / sqrt(nn)
Signed(s) == IF s.dot >= 0 THEN s.dot * s.dot ELSE -(s.dot * s.dot)

\* s > t as numbers (false when either is NaN)
ScoreGT(s, t) == ~IsNaN(s) /\ ~IsNaN(t) /\ Signed(s) * t.nn > Signed(t) * s.nn

\* the comparator with its operands exchanged, (a, b) => a.score - b.score
ComesAfter_Ascending(a, b) == ScoreGT(a.score, b.score)

\* reports.ts:218  the comparator (a, b) => b.score - a.score is positive
\* exactly when b must come before a
ComesAfter(a, b) == ScoreGT(b.score, a.score)

\* a sort that is not stable: x goes in front of the elements it ties with
RECURSIVE InsertScored_Unstable(_, _)
InsertScored_Unstable(sorted, x) ==
    IF sorted = <<>> THEN <<x>>
    ELSE IF ~ComesAfter(x, Head(sorted)) THEN <<x>> \o sorted
         ELSE <<Head(sorted)>> \o InsertScored_Unstable(Tail(sorted), x)

\* Array.prototype.sort is stable: x goes behind every element that does not
\* have to come after it
RECURSIVE InsertScored(_, _)
InsertScored(sorted, x) ==
    IF sorted = <<>> THEN <<x>>
    ELSE IF ComesAfter(Head(sorted), x) THEN <<x>> \o sorted
         ELSE <<Head(sorted)>> \o InsertScored(Tail(sorted), x)

RECURSIVE SortScoredFrom(_, _)
SortScoredFrom(sorted, rest) ==
    IF rest = <<>> THEN sorted
    ELSE SortScoredFrom(InsertScored(sorted, Head(rest)), Tail(rest))

\* the sort left out
SortScored_Unsorted(scored) == scored

\* reports.ts:218  scored.sort((a, b) => b.score - a.score)
SortScored(scored) == SortScoredFrom(<<>>, scored)

\* reports.ts:220  scored.slice(0, topK): a negative end counts from the
\* end of the array
SliceTopK(scored, topK) ==
    LET len == Len(scored)
        end == IF topK < 0 THEN Max(len + topK, 0) ELSE Min(topK, len)
    IN  SubSeq(scored, 1, end)

\* the filter left out
ValidReports_NoFilter(rs) == rs

\* reports.ts:203  reports.filter(r => r.embedding.length > 0)
RECURSIVE ValidReports(_)
ValidReports(rs) ==
    IF rs = <<>> THEN <<>>
    ELSE IF Len(Head(rs).embedding) > 0
         THEN <<Head(rs)>> \o ValidReports(Tail(rs))
         ELSE ValidReports(Tail(rs))

\* reports.ts:209-215  validReports.map(r => ({...r, score}))
ScoreReports(valid, queryVector) ==
    [n \in 1..Len(valid) |->
        [id        |-> valid[n].id,
         text      |-> valid[n].text,
         embedding |-> valid[n].embedding,
         score     |-> cosineSimilarity(queryVector, valid[n].embedding)]]

\* reports.ts:209-220  score, sort, slice
TopResults(valid, queryVector, topK) ==
    SliceTopK(SortScored(ScoreReports(valid, queryVector)), topK)

(***************************************************************************)
(* State.                                                                  *)
(***************************************************************************)
VARIABLES
    file,             \* the corpus file on disk
    heap,             \* the Report arrays that are reachable, by address;
                      \* the objects in an array are shared by every batch
                      \* sliced from it
    reports,          \* reports.ts:41   the array `reports` refers to
    embeddingsModel,  \* reports.ts:42   FALSE is null
    isLoaded,         \* reports.ts:43
    initialized,      \* route.ts:255
    call,             \* per request context: the call it is in, where it
                      \* stands, its locals and, once settled, its result
    nCalls,           \* calls started so far
    loadSucceeded,    \* history: some loadReports() call has returned normally
    post,             \* route.ts:274-336  the POST handler of the chat endpoint:
                      \* where it stands, its locals and its response
    pool,             \* route.ts:188-209  a call of runWithConcurrency: its
                      \* locals, its runners and what the workers did
    retry             \* route.ts:46-62    a call of withRetry: its locals and
                      \* the attempts made

vars == <<file, heap, reports, embeddingsModel, isLoaded, initialized,
          call, nCalls, loadSucceeded, post, pool, retry>>

\* the array `reports` refers to
Reports == heap[reports]

\* Addresses of Report arrays.  An array is reachable from `reports` or from
\* the batch of a call that is awaiting an embedding, so there are never
\* more reachable arrays than request contexts plus one.
Addrs == 1..(Cardinality(Callers) + 1)

\* the arrays the batches of the calls other than c are sliced from
BatchArrays(c) == {call[d].bArr : d \in {e \in Callers \ {c} : call[e].pc = "awaitEmbed"}}

\* garbage collection: the arrays at the addresses in live are kept
Collect(h, live) == [a \in Addrs |-> IF a \in live THEN h[a] ELSE <<>>]

\* allocation: a new array gets the first address no reachable array has
NewAddr(live) == CHOOSE a \in Addrs \ live : \A b \in Addrs \ live : a <= b

\* a request context that is in no call.  pc is "idle", "awaitModel"
\* (reports.ts:92), "awaitEmbed" (reports.ts:132), "awaitQuery"
\* (reports.ts:195) or "settled": the promise of the call is resolved or
\* rejected and the caller has not resumed yet.
Idle ==
    [op |-> "none", pc |-> "idle", viaInit |-> FALSE,
     i |-> 0, bArr |-> 0, bTo |-> 0, j |-> 0, processed |-> 0,
     query |-> <<>>, topK |-> 0, valid |-> <<>>, total |-> 0,
     nEmbed |-> 0, ranLoad |-> FALSE, okIds |-> {}, failIds |-> {},
     loadedBefore |-> FALSE,
     outcome |-> "none", err |-> "none", value |-> <<>>]

InLoad(c) == call[c].pc \in {"awaitModel", "awaitEmbed"}

\* The continuation of a settled promise is a microtask: it runs before the
\* event loop takes the next request or the next completion of the model.
Quiet == \A d \in Callers : call[d].pc # "settled"

\* a new call runs in the first request context that is free
Free(c) ==
    /\ Quiet
    /\ call[c].pc = "idle"
    /\ \A d \in Callers : d < c => call[d].pc # "idle"

\* route.ts:274  no request is being handled.  In a handler, pc is
\* "init" (route.ts:286), "retrieve" (route.ts:292), "awaitLLM"
\* (route.ts:312-319) or "responded".  n counts the requests handled;
\* query is the text of body.query; contextText is the sequence of texts
\* joined at route.ts:293; relevantReports keeps what the retrieval returned;
\* llm is "none", "ok" or "error"; status is the HTTP status (0: none yet).
PostIdle ==
    [pc |-> "idle", n |-> 0, query |-> <<>>, contextText |-> <<>>,
     usedReports |-> <<>>, relevantReports |-> <<>>, retrievalFailed |-> FALSE,
     llm |-> "none", status |-> 0]

(***************************************************************************)
(* runWithConcurrency (route.ts:188-209) and withRetry (route.ts:46-62):   *)
(* the state of one call of each.                                          *)
(***************************************************************************)
\* number of items passed to runWithConcurrency
MaxItems == 3

\* the indices of the items, and the runners (never more than items)
Items == 0..(MaxItems - 1)
Runners == 1..MaxItems

\* results[idx] before it is assigned
Unset == [kind |-> "unset", of |-> -1]

\* no call of runWithConcurrency yet.  pc is "idle", "running" or
\* "resolved"; n is items.length; c is concurrency; i is the shared counter;
\* runner[r] is where runner r stands ("none", "await", "done") and the
\* index it holds; invoked[k] counts the worker calls for item k and
\* outcome[k] is what the worker did with it ("none", "value", "error").
PoolIdle ==
    [pc |-> "idle", n |-> 0, c |-> 0, i |-> 0,
     runner  |-> [r \in Runners |-> [pc |-> "none", idx |-> 0]],
     results |-> [k \in Items |-> Unset],
     invoked |-> [k \in Items |-> 0],
     outcome |-> [k \in Items |-> "none"]]

\* largest value of retries passed to withRetry
MaxRetries == 3

\* no error, and no result
NoErr == [kind |-> "none", attempt |-> 0, status |-> 0, msg |-> 0]

\* no call of withRetry yet.  pc is "idle", "calling" (await fn()),
\* "sleeping" (await sleep(delay)) or "done"; log is the sequence of the
\* outcomes of the calls of fn; result is what withRetry returned or threw.
RetryIdle ==
    [pc |-> "idle", retries |-> 0, i |-> 0, calls |-> 0, log |-> <<>>,
     lastErr |-> NoErr, result |-> NoErr]

Init ==
    /\ file \in Files
    /\ heap = [a \in Addrs |-> <<>>]
    /\ reports = 1
    /\ embeddingsModel = FALSE
    /\ isLoaded = FALSE
    /\ initialized = FALSE
    /\ call = [c \in Callers |-> Idle]
    /\ nCalls = 0
    /\ loadSucceeded = FALSE
    /\ post = PostIdle
    /\ pool = PoolIdle
    /\ retry = RetryIdle

\* the call of context c settles: it returns value, or throws err
Settle(c, cl, outcome, err, value) ==
    call' = [call EXCEPT ![c] =
               [cl EXCEPT !.pc = "settled", !.outcome = outcome, !.err = err,
                          !.value = value,
                          !.i = 0, !.bArr = 0, !.bTo = 0, !.j = 0]]

(***************************************************************************)
(* loadReports                                                             *)
(***************************************************************************)
\* reports.ts:172-176 (and route.ts:267-270): the error is logged and
\* rethrown to the caller
LoadThrows(c, cl, err) ==
    /\ Settle(c, cl, "error", err, <<>>)
    /\ loadSucceeded' = loadSucceeded

\* loadReports() returns
LoadReturns(c, cl) ==
    /\ Settle(c, cl, "ok", "none", <<>>)
    /\ loadSucceeded' = TRUE

\* reports.ts:162  reports.filter(r => r.embedding.length > 0).length
successfulEmbeddings(rs) == Len(ValidReports(rs))

\* reports.ts:162-170  after the loop, with the report arrays h
LoadFinish(c, h, cl) ==
    /\ heap' = Collect(h, {reports} \cup BatchArrays(c))
    /\ IF successfulEmbeddings(h[reports]) = 0
       THEN /\ LoadThrows(c, cl, "NoEmbeddings")
            /\ isLoaded' = isLoaded
       ELSE /\ isLoaded' = TRUE
            /\ LoadReturns(c, cl)

\* reports.ts:132  embeddingsModel(report.text, ...) is called for the
\* report at position j of the batch and awaited
StartEmbed(c, h, cl, j) ==
    /\ heap' = Collect(h, {reports, cl.bArr} \cup BatchArrays(c))
    /\ call' = [call EXCEPT ![c] =
                  [cl EXCEPT !.pc = "awaitEmbed", !.j = j, !.nEmbed = cl.nEmbed + 1]]
    /\ UNCHANGED <<isLoaded, loadSucceeded>>

\* reports.ts:156-158  report.embedding = [] for the reports at positions
\* from..to of array arr
RECURSIVE EmptyBatch(_, _, _, _)
EmptyBatch(h, arr, from, to) ==
    IF from > to THEN h
    ELSE EmptyBatch([h EXCEPT ![arr][from].embedding = <<>>], arr, from + 1, to)

\* reports.ts:121-130  the head of the batch loop with loop variable i:
\* batch = reports.slice(i, i + batchSize) is taken from the array `reports`
\* refers to now; model is the value of embeddingsModel
RECURSIVE LoopHead(_, _, _, _, _)
LoopHead(c, h, cl, i, model) ==
    IF i < Len(h[reports])
    THEN LET to == Min(i + batchSize, Len(h[reports]))
         IN  IF ~model
             THEN \* reports.ts:125-127 and 152-159
                  LoopHead(c, EmptyBatch(h, reports, i + 1, to), cl, i + batchSize, model)
             ELSE StartEmbed(c, h, [cl EXCEPT !.i = i, !.bArr = reports, !.bTo = to],
                             i + 1)
    ELSE LoadFinish(c, h, cl)

\* reports.ts:130,146-148,121  after the report at position cl.j: the next
\* report of the batch, or the next batch
AfterEmbed(c, h, cl) ==
    IF cl.j < cl.bTo
    THEN StartEmbed(c, h, cl, cl.j + 1)
    ELSE LoopHead(c, h, cl, cl.i + batchSize, embeddingsModel)

\* loadReports() without the check of isLoaded at its head
EnterLoadReports_NoGuard(c, viaInit) ==
    LET cl == [Idle EXCEPT !.op = "load", !.viaInit = viaInit,
                           !.loadedBefore = loadSucceeded]
    IN  IF ~file.exists
        THEN /\ LoadThrows(c, [cl EXCEPT !.ranLoad = TRUE], "FileNotFound")
             /\ UNCHANGED <<heap, reports, embeddingsModel, isLoaded>>
        ELSE /\ LET a == NewAddr(BatchArrays(c))
                IN  /\ heap' = [Collect(heap, BatchArrays(c)) EXCEPT
                                  ![a] = ParseReports(file.lines)]
                    /\ reports' = a
             /\ call' = [call EXCEPT ![c] =
                           [cl EXCEPT !.pc = "awaitModel", !.ranLoad = TRUE]]
             /\ UNCHANGED <<embeddingsModel, isLoaded, loadSucceeded>>

\* reports.ts:48-105  loadReports() up to `await pipeline(...)`
EnterLoadReports(c, viaInit) ==
    LET cl == [Idle EXCEPT !.op = "load", !.viaInit = viaInit,
                           !.loadedBefore = loadSucceeded]
    IN  IF isLoaded
        THEN \* reports.ts:49-52
             /\ LoadReturns(c, cl)
             /\ UNCHANGED <<heap, reports, embeddingsModel, isLoaded>>
        ELSE IF ~file.exists
        THEN \* reports.ts:58-60
             /\ LoadThrows(c, [cl EXCEPT !.ranLoad = TRUE], "FileNotFound")
             /\ UNCHANGED <<heap, reports, embeddingsModel, isLoaded>>
        ELSE \* reports.ts:63-105
             /\ LET a == NewAddr(BatchArrays(c))
                IN  /\ heap' = [Collect(heap, BatchArrays(c)) EXCEPT
                                  ![a] = ParseReports(file.lines)]
                    /\ reports' = a
             /\ call' = [call EXCEPT ![c] =
                           [cl EXCEPT !.pc = "awaitModel", !.ranLoad = TRUE]]
             /\ UNCHANGED <<embeddingsModel, isLoaded, loadSucceeded>>

\* a request context calls loadReports()
CallLoadReports(c) ==
    /\ Free(c)
    /\ nCalls < MaxCalls
    /\ nCalls' = nCalls + 1
    /\ EnterLoadReports(c, FALSE)
    /\ UNCHANGED <<file, initialized, post,
                   pool, retry>>

\* route.ts:256-263  a request context calls init()
CallInit(c) ==
    /\ Free(c)
    /\ nCalls < MaxCalls
    /\ nCalls' = nCalls + 1
    /\ IF initialized
       THEN UNCHANGED <<heap, reports, embeddingsModel, isLoaded, call, loadSucceeded>>
       ELSE EnterLoadReports(c, TRUE)
    /\ UNCHANGED <<file, initialized, post,
                   pool, retry>>

\* reports.ts:92-121  pipeline(...) resolves
ModelLoaded(c) ==
    /\ Quiet
    /\ call[c].pc = "awaitModel"
    /\ embeddingsModel' = TRUE
    /\ LoopHead(c, heap, call[c], 0, TRUE)
    /\ UNCHANGED <<file, reports, initialized, nCalls, post,
                   pool, retry>>

\* the rejection of pipeline(...) logged and not rethrown: the load goes on
\* to the batch loop
ModelFails_Ignored(c) ==
    /\ Quiet
    /\ call[c].pc = "awaitModel"
    /\ LoopHead(c, heap, call[c], 0, embeddingsModel)
    /\ UNCHANGED <<file, reports, embeddingsModel, initialized, nCalls, post,
                   pool, retry>>

\* reports.ts:109-113  pipeline(...) rejects
ModelFails(c) ==
    /\ Quiet
    /\ call[c].pc = "awaitModel"
    /\ LoadThrows(c, call[c], "ModelLoadingFailed")
    /\ UNCHANGED <<file, heap, reports, embeddingsModel, isLoaded, initialized, nCalls,
                   post,
                   pool, retry>>

\* the report arrays after report.embedding = e for the report of the call
SetEmbedding(cl, e) ==
    [heap EXCEPT ![cl.bArr][cl.j].embedding = e]

\* reports.ts:132-139  the embedding call resolves
EmbedOk(c) ==
    /\ Quiet
    /\ call[c].pc = "awaitEmbed"
    /\ LET cl == call[c]
           r  == heap[cl.bArr][cl.j]
           h  == SetEmbedding(cl, EmbedVec(r.text))
       IN  AfterEmbed(c, h, [cl EXCEPT !.processed = cl.processed + 1,
                                      !.okIds = cl.okIds \cup {r.id}])
    /\ UNCHANGED <<file, reports, embeddingsModel, initialized, nCalls, post,
                   pool, retry>>

\* reports.ts:141-145  the embedding call rejects
EmbedFails(c) ==
    /\ Quiet
    /\ call[c].pc = "awaitEmbed"
    /\ LET cl == call[c]
           r  == heap[cl.bArr][cl.j]
           h  == SetEmbedding(cl, <<>>)
       IN  AfterEmbed(c, h, [cl EXCEPT !.failIds = cl.failIds \cup {r.id}])
    /\ UNCHANGED <<file, reports, embeddingsModel, initialized, nCalls, post,
                   pool, retry>>

\* reports.ts:132,141-145  the embedding call rejects with a rate-limit
\* signal (HTTP 429, "rate limit" in the message).  The catch block does not
\* look at the error: the report gets an empty embedding and the loop goes
\* on, as for every other rejection.
EmbedRateLimited(c) ==
    /\ Quiet
    /\ call[c].pc = "awaitEmbed"
    /\ LET cl == call[c]
           r  == heap[cl.bArr][cl.j]
           h  == SetEmbedding(cl, <<>>)
       IN  AfterEmbed(c, h, [cl EXCEPT !.failIds = cl.failIds \cup {r.id}])
    /\ UNCHANGED <<file, reports, embeddingsModel, initialized, nCalls, post,
                   pool, retry>>

(***************************************************************************)
(* retrieveRelevantReports                                                 *)
(***************************************************************************)
\* the queries and the values of topK the callers pass
Queries == {<<"a">>, <<" ">>, <<>>}
TopKs == {-1, 0, 1, MaxLines + 1}

\* retrieveRelevantReports() without the check of isLoaded at its head
CallRetrieve_NoGuard(c, query, topK) ==
    /\ Free(c)
    /\ nCalls < MaxCalls
    /\ nCalls' = nCalls + 1
    /\ LET cl == [Idle EXCEPT !.op = "retrieve", !.query = query, !.topK = topK,
                              !.loadedBefore = loadSucceeded]
       IN  IF ~embeddingsModel
           THEN Settle(c, cl, "error", "ModelNotAvailable", <<>>)
           ELSE call' = [call EXCEPT ![c] = [cl EXCEPT !.pc = "awaitQuery", !.nEmbed = 1]]
    /\ UNCHANGED <<file, heap, reports, embeddingsModel, isLoaded, initialized,
                   loadSucceeded, post,
                   pool, retry>>

\* reports.ts:182-198  retrieveRelevantReports(query, topK) up to the await
\* of the query embedding
CallRetrieve(c, query, topK) ==
    /\ Free(c)
    /\ nCalls < MaxCalls
    /\ nCalls' = nCalls + 1
    /\ LET cl == [Idle EXCEPT !.op = "retrieve", !.query = query, !.topK = topK,
                              !.loadedBefore = loadSucceeded]
       IN  IF ~isLoaded
           THEN \* reports.ts:183-185
                Settle(c, cl, "error", "NotLoaded", <<>>)
           ELSE IF ~embeddingsModel
           THEN \* reports.ts:187-189
                Settle(c, cl, "error", "ModelNotAvailable", <<>>)
           ELSE \* reports.ts:195
                call' = [call EXCEPT ![c] = [cl EXCEPT !.pc = "awaitQuery", !.nEmbed = 1]]
    /\ UNCHANGED <<file, heap, reports, embeddingsModel, isLoaded, initialized,
                   loadSucceeded, post,
                   pool, retry>>

\* the scores sorted in the array `reports` refers to instead of in a copy
QueryEmbedOk_SortsStore(c) ==
    /\ Quiet
    /\ call[c].pc = "awaitQuery"
    /\ LET queryVector == EmbedVec(call[c].query)
           validReports == ValidReports(Reports)
           sorted == SortScored(ScoreReports(Reports, queryVector))
           cl == [call[c] EXCEPT !.valid = validReports, !.total = Len(Reports)]
       IN  /\ heap' = [heap EXCEPT ![reports] =
                          [n \in 1..Len(sorted) |->
                              [id |-> sorted[n].id, text |-> sorted[n].text,
                               embedding |-> sorted[n].embedding]]]
           /\ IF Len(validReports) = 0
              THEN Settle(c, cl, "error", "NoValidEmbeddings", <<>>)
              ELSE Settle(c, cl, "ok", "none", TopResults(validReports, queryVector, cl.topK))
    /\ UNCHANGED <<file, reports, embeddingsModel, isLoaded, initialized, nCalls,
                   loadSucceeded, post,
                   pool, retry>>

\* the check of validReports.length left out
QueryEmbedOk_NoEmptyCheck(c) ==
    /\ Quiet
    /\ call[c].pc = "awaitQuery"
    /\ LET queryVector == EmbedVec(call[c].query)
           validReports == ValidReports(Reports)
           cl == [call[c] EXCEPT !.valid = validReports, !.total = Len(Reports)]
       IN  Settle(c, cl, "ok", "none", TopResults(validReports, queryVector, cl.topK))
    /\ UNCHANGED <<file, heap, reports, embeddingsModel, isLoaded, initialized, nCalls,
                   loadSucceeded, post,
                   pool, retry>>

\* reports.ts:200-226  the query embedding resolves
QueryEmbedOk(c) ==
    /\ Quiet
    /\ call[c].pc = "awaitQuery"
    /\ LET queryVector == EmbedVec(call[c].query)
           validReports == ValidReports(Reports)
           cl == [call[c] EXCEPT !.valid = validReports, !.total = Len(Reports)]
       IN  IF Len(validReports) = 0
           THEN \* reports.ts:205-207
                Settle(c, cl, "error", "NoValidEmbeddings", <<>>)
           ELSE Settle(c, cl, "ok", "none", TopResults(validReports, queryVector, cl.topK))
    /\ UNCHANGED <<file, heap, reports, embeddingsModel, isLoaded, initialized, nCalls,
                   loadSucceeded, post,
                   pool, retry>>

\* the error swallowed and an empty result returned in its place
QueryEmbedFails_EmptyFallback(c) ==
    /\ Quiet
    /\ call[c].pc = "awaitQuery"
    /\ Settle(c, call[c], "ok", "none", <<>>)
    /\ UNCHANGED <<file, heap, reports, embeddingsModel, isLoaded, initialized, nCalls,
                   loadSucceeded, post,
                   pool, retry>>

\* reports.ts:195,228-232  the query embedding rejects
QueryEmbedFails(c) ==
    /\ Quiet
    /\ call[c].pc = "awaitQuery"
    /\ Settle(c, call[c], "error", "EmbeddingFailed", <<>>)
    /\ UNCHANGED <<file, heap, reports, embeddingsModel, isLoaded, initialized, nCalls,
                   loadSucceeded, post,
                   pool, retry>>

(***************************************************************************)
(* The caller                                                              *)
(***************************************************************************)
\* initialized set whether loadReports() returned or threw
Continue_Latches(c) ==
    /\ call[c].pc = "settled"
    /\ initialized' = (initialized \/ call[c].viaInit)
    /\ call' = [call EXCEPT ![c] = Idle]
    /\ UNCHANGED <<file, heap, reports, embeddingsModel, isLoaded, nCalls, loadSucceeded,
                   post,
                   pool, retry>>

\* the caller of a settled call resumes; after loadReports() has returned to
\* init(), route.ts:265 sets initialized
Continue(c) ==
    /\ call[c].pc = "settled"
    /\ initialized' = (initialized \/ (call[c].viaInit /\ call[c].outcome = "ok"))
    /\ call' = [call EXCEPT ![c] = Idle]
    /\ UNCHANGED <<file, heap, reports, embeddingsModel, isLoaded, nCalls, loadSucceeded,
                   post,
                   pool, retry>>

(***************************************************************************)
(* Specification.                                                          *)
(***************************************************************************)
Next ==
    \E c \in Callers :
        \/ CallLoadReports(c)
        \/ CallInit(c)
        \/ ModelLoaded(c)
        \/ ModelFails(c)
        \/ EmbedOk(c)
        \/ EmbedFails(c)
        \/ EmbedRateLimited(c)
        \/ \E query \in Queries, topK \in TopKs : CallRetrieve(c, query, topK)
        \/ QueryEmbedOk(c)
        \/ QueryEmbedFails(c)
        \/ Continue(c)

Spec == Init /\ [][Next]_vars

(***************************************************************************)
(* The parse of the corpus: loadReports() called by one request context    *)
(* at a time, on corpus files built from a wider set of lines.             *)
(***************************************************************************)
\* number of lines of the corpus file
MaxParseLines == 3

\* the lines the corpus file is built from
ParseLines ==
    FileLines \cup
    { EmptyLine,
      Rec(<<>>, <<>>),
      Rec(<<"a", " ">>, <<>>),
      Rec(<<>>, <<" ">>) }

ParseFiles ==
    {NoFile} \cup {[exists |-> TRUE, lines |-> ls] : ls \in SeqsUpTo(ParseLines, MaxParseLines)}

\* the request context that loads
Loader == 1

InitParse ==
    /\ file \in ParseFiles
    /\ heap = [a \in Addrs |-> <<>>]
    /\ reports = 1
    /\ embeddingsModel = FALSE
    /\ isLoaded = FALSE
    /\ initialized = FALSE
    /\ call = [c \in Callers |-> Idle]
    /\ nCalls = 0
    /\ loadSucceeded = FALSE
    /\ post = PostIdle
    /\ pool = PoolIdle
    /\ retry = RetryIdle

NextParse ==
    \/ CallLoadReports(Loader)
    \/ ModelLoaded(Loader)
    \/ ModelFails(Loader)
    \/ EmbedOk(Loader)
    \/ EmbedFails(Loader)
    \/ Continue(Loader)

SpecParse == InitParse /\ [][NextParse]_vars

(***************************************************************************)
(* Progress.  One request context calls loadReports() and                  *)
(* retrieveRelevantReports().  The event loop runs the continuation of a   *)
(* settled call, and pipeline(...) settles; these steps are weakly fair.   *)
(* An embedding call (reports.ts:132, reports.ts:195) is awaited with no   *)
(* timer beside it: it ends only when the provider answers, and nothing    *)
(* makes the provider answer, so EmbedOk, EmbedFails, QueryEmbedOk and     *)
(* QueryEmbedFails carry no fairness.                                      *)
(***************************************************************************)
NextLive ==
    \/ CallLoadReports(Loader)
    \/ ModelLoaded(Loader)
    \/ ModelFails(Loader)
    \/ EmbedOk(Loader)
    \/ EmbedFails(Loader)
    \/ \E query \in Queries, topK \in TopKs : CallRetrieve(Loader, query, topK)
    \/ QueryEmbedOk(Loader)
    \/ QueryEmbedFails(Loader)
    \/ Continue(Loader)

SpecLive ==
    /\ Init
    /\ [][NextLive]_vars
    /\ WF_vars(Continue(Loader))
    /\ WF_vars(ModelLoaded(Loader) \/ ModelFails(Loader))

(***************************************************************************)
(* The chat endpoint: POST of route.ts, one request at a time.  The        *)
(* handler calls init() and retrieveRelevantReports(query, 3) in request   *)
(* context Handler; the steps of those calls are the actions above.  The   *)
(* LLM completion (route.ts:305-320: one call, or the chunk calls and the  *)
(* synthesis call) is one await that resolves or rejects.                  *)
(***************************************************************************)
\* number of requests the endpoint handles per run
MaxPosts == 2

\* the request context the handler runs in
Handler == 1

\* route.ts:292  retrieveRelevantReports(query, 3)
contextTopK == 3

\* route.ts:296  r.text.slice(0, 120)
snippetLength == 120

\* values of body.query: a string, a value that is not a string, or nothing
Str(s) == [type |-> "string", s |-> s]
NotAString == [type |-> "number", s |-> <<>>]
Missing == [type |-> "undefined", s |-> <<>>]

\* the request bodies: json is FALSE when req.json() rejects
Bodies ==
    {[json |-> FALSE, query |-> Missing]} \cup
    {[json |-> TRUE, query |-> q] :
        q \in {Missing, NotAString, Str(<<>>), Str(<<" ">>), Str(<<"a">>), Str(<<" ", "b">>)}}

\* route.ts:279  !query || typeof query !== "string" || query.trim().length === 0
InvalidQuery(q) == q.type # "string" \/ q.s = <<>> \/ Len(Trim(q.s)) = 0

\* r[name] for an object r: the value of the property, or undefined when r
\* has no such property
Field(r, name) ==
    IF name \in DOMAIN r THEN [defined |-> TRUE, v |-> r[name]]
    ELSE [defined |-> FALSE, v |-> 0]

\* route.ts:296  .replace(/\s+/g, " "): every run of whitespace becomes one space
RECURSIVE CollapseSpaces(_)
CollapseSpaces(s) ==
    IF Len(s) < 2 THEN s
    ELSE IF s[1] = " " /\ s[2] = " " THEN CollapseSpaces(Tail(s))
         ELSE <<s[1]>> \o CollapseSpaces(Tail(s))

\* route.ts:296  r.text.slice(0, 120).replace(/\s+/g, " ") + "..."
Snippet(text) ==
    CollapseSpaces(SubSeq(text, 1, Min(snippetLength, Len(text)))) \o <<".", ".", ".">>

\* route.ts:294-298  the entry of usedReports built from result r
UsedReport(r) ==
    [reportId |-> Field(r, "reportId"), snippet |-> Snippet(r.text), fullText |-> r.text]

\* the handler returns a response with this status
Respond(p, status) == post' = [p EXCEPT !.pc = "responded", !.status = status]

\* a request arrives and goes on to init() whatever its query is
PostRequest_NoValidation(body) ==
    /\ post.pc = "idle"
    /\ post.n < MaxPosts
    /\ IF ~body.json
       THEN Respond(post, 500)
       ELSE post' = [post EXCEPT !.pc = "init", !.query = body.query.s]
    /\ UNCHANGED <<file, heap, reports, embeddingsModel, isLoaded, initialized,
                   call, nCalls, loadSucceeded,
                   pool, retry>>

\* route.ts:275-284  a request arrives: the body is read and validated
PostRequest(body) ==
    /\ post.pc = "idle"
    /\ post.n < MaxPosts
    /\ IF ~body.json
       THEN \* route.ts:276,330-335
            Respond(post, 500)
       ELSE IF InvalidQuery(body.query)
       THEN \* route.ts:279-281
            Respond(post, 400)
       ELSE post' = [post EXCEPT !.pc = "init", !.query = body.query.s]
    /\ UNCHANGED <<file, heap, reports, embeddingsModel, isLoaded, initialized,
                   call, nCalls, loadSucceeded,
                   pool, retry>>

\* route.ts:286,256-263  await init() on a process that is not initialized
PostCallInit ==
    /\ post.pc = "init"
    /\ ~initialized
    /\ CallInit(Handler)

\* route.ts:286,257  await init() on an initialized process: init() returns
\* at once
PostInitSkipped ==
    /\ post.pc = "init"
    /\ call[Handler].pc = "idle"
    /\ initialized
    /\ post' = [post EXCEPT !.pc = "retrieve"]
    /\ UNCHANGED <<file, heap, reports, embeddingsModel, isLoaded, initialized,
                   call, nCalls, loadSucceeded,
                   pool, retry>>

\* route.ts:263-271,286,330-335  loadReports() has settled: init() sets
\* initialized and returns, or rethrows and the handler answers 500
PostAfterInit ==
    /\ post.pc = "init"
    /\ call[Handler].pc = "settled"
    /\ initialized' = (initialized \/ call[Handler].outcome = "ok")
    /\ call' = [call EXCEPT ![Handler] = Idle]
    /\ IF call[Handler].outcome = "ok"
       THEN post' = [post EXCEPT !.pc = "retrieve"]
       ELSE Respond(post, 500)
    /\ UNCHANGED <<file, heap, reports, embeddingsModel, isLoaded, nCalls, loadSucceeded,
                   pool, retry>>

\* route.ts:292  retrieveRelevantReports(query, 3) is called
PostCallRetrieve ==
    /\ post.pc = "retrieve"
    /\ CallRetrieve(Handler, post.query, contextTopK)

\* the retrieval error not caught: the handler answers 500
PostAfterRetrieve_NoCatch ==
    /\ post.pc = "retrieve"
    /\ call[Handler].pc = "settled"
    /\ LET value == call[Handler].value
       IN  IF call[Handler].outcome = "ok"
           THEN post' = [post EXCEPT
                           !.pc = "awaitLLM",
                           !.relevantReports = value,
                           !.contextText = [n \in 1..Len(value) |-> value[n].text],
                           !.usedReports = [n \in 1..Len(value) |-> UsedReport(value[n])]]
           ELSE Respond([post EXCEPT !.retrievalFailed = TRUE], 500)
    /\ call' = [call EXCEPT ![Handler] = Idle]
    /\ UNCHANGED <<file, heap, reports, embeddingsModel, isLoaded, initialized,
                   nCalls, loadSucceeded,
                   pool, retry>>

\* route.ts:289-320  the retrieval has settled: contextText and usedReports
\* are built from its result, or its error is caught and logged; then the
\* LLM completion is called
PostAfterRetrieve ==
    /\ post.pc = "retrieve"
    /\ call[Handler].pc = "settled"
    /\ LET value == call[Handler].value
       IN  IF call[Handler].outcome = "ok"
           THEN \* route.ts:293-298
                post' = [post EXCEPT
                           !.pc = "awaitLLM",
                           !.relevantReports = value,
                           !.contextText = [n \in 1..Len(value) |-> value[n].text],
                           !.usedReports = [n \in 1..Len(value) |-> UsedReport(value[n])]]
           ELSE \* route.ts:300-302
                post' = [post EXCEPT !.pc = "awaitLLM", !.retrievalFailed = TRUE]
    /\ call' = [call EXCEPT ![Handler] = Idle]
    /\ UNCHANGED <<file, heap, reports, embeddingsModel, isLoaded, initialized,
                   nCalls, loadSucceeded,
                   pool, retry>>

\* route.ts:312-328  the LLM completion resolves: 200 with result,
\* model_used and usedReports
LLMResolves ==
    /\ post.pc = "awaitLLM"
    /\ Respond([post EXCEPT !.llm = "ok"], 200)
    /\ UNCHANGED <<file, heap, reports, embeddingsModel, isLoaded, initialized,
                   call, nCalls, loadSucceeded,
                   pool, retry>>

\* route.ts:312-319,330-335  the LLM completion rejects: 500
LLMRejects ==
    /\ post.pc = "awaitLLM"
    /\ Respond([post EXCEPT !.llm = "error"], 500)
    /\ UNCHANGED <<file, heap, reports, embeddingsModel, isLoaded, initialized,
                   call, nCalls, loadSucceeded,
                   pool, retry>>

\* the response is sent; the endpoint takes the next request
PostDone ==
    /\ post.pc = "responded"
    /\ post' = [PostIdle EXCEPT !.n = post.n + 1]
    /\ UNCHANGED <<file, heap, reports, embeddingsModel, isLoaded, initialized,
                   call, nCalls, loadSucceeded,
                   pool, retry>>

NextChat ==
    \/ \E body \in Bodies : PostRequest(body)
    \/ PostCallInit
    \/ ModelLoaded(Handler)
    \/ ModelFails(Handler)
    \/ EmbedOk(Handler)
    \/ EmbedFails(Handler)
    \/ EmbedRateLimited(Handler)
    \/ PostInitSkipped
    \/ PostAfterInit
    \/ PostCallRetrieve
    \/ QueryEmbedOk(Handler)
    \/ QueryEmbedFails(Handler)
    \/ PostAfterRetrieve
    \/ LLMResolves
    \/ LLMRejects
    \/ PostDone

SpecChat == Init /\ [][NextChat]_vars

(***************************************************************************)
(* runWithConcurrency (route.ts:188-209).  The for loop starts the runners *)
(* one after the other without an await between them: each runner takes    *)
(* an index and calls the worker before the next one starts.  A runner     *)
(* resumes when its worker settles, stores the outcome and takes the next  *)
(* index.                                                                  *)
(***************************************************************************)
\* the values of concurrency
Concurrencies == 0..(MaxItems + 1)

\* the store, the calls and the POST handler are not touched by the helpers
StoreUnchanged ==
    UNCHANGED <<file, heap, reports, embeddingsModel, isLoaded, initialized,
                call, nCalls, loadSucceeded, post>>

\* as many runners as items, whatever the concurrency
NumRunners_All(n, c) == n

\* j < Math.min(concurrency, items.length), j from 0
NumRunners(n, c) == Max(Min(c, n), 0)

\* the head of the loop of run(): const idx = i++; break when idx is past
\* the items, otherwise call the worker on items[idx] and wait for it
TakeNext(p, r) ==
    LET idx == p.i IN
    IF idx >= p.n
    THEN [p EXCEPT !.i = idx + 1, !.runner[r] = [pc |-> "done", idx |-> 0]]
    ELSE [p EXCEPT !.i = idx + 1,
                   !.runner[r] = [pc |-> "await", idx |-> idx],
                   !.invoked[idx] = @ + 1]

\* runners.push(run()) for the runners r..k
RECURSIVE StartRunners(_, _, _)
StartRunners(p, r, k) ==
    IF r > k THEN p ELSE StartRunners(TakeNext(p, r), r + 1, k)

\* runWithConcurrency(items, worker, c) with n items, up to await Promise.all
PoolCall(n, c) ==
    /\ pool.pc = "idle"
    /\ pool' = StartRunners([PoolIdle EXCEPT !.pc = "running", !.n = n, !.c = c],
                            1, NumRunners(n, c))
    /\ UNCHANGED retry
    /\ StoreUnchanged

\* runner r resumes with the outcome of its worker: results[idx] = res in
\* the try, results[idx] = e in the catch; then the loop goes on
StoreResult(p, r, kind) ==
    LET idx == p.runner[r].idx IN
    TakeNext([p EXCEPT !.results[idx] = [kind |-> kind, of |-> idx],
                       !.outcome[idx] = kind], r)

\* the worker of runner r resolves
WorkerResolves(r) ==
    /\ pool.pc = "running"
    /\ pool.runner[r].pc = "await"
    /\ pool' = StoreResult(pool, r, "value")
    /\ UNCHANGED retry
    /\ StoreUnchanged

\* the worker of runner r throws
WorkerRejects(r) ==
    /\ pool.pc = "running"
    /\ pool.runner[r].pc = "await"
    /\ pool' = StoreResult(pool, r, "error")
    /\ UNCHANGED retry
    /\ StoreUnchanged

\* every runner has left its loop: Promise.all resolves, results is returned
PoolReturns ==
    /\ pool.pc = "running"
    /\ \A r \in Runners : pool.runner[r].pc # "await"
    /\ pool' = [pool EXCEPT !.pc = "resolved"]
    /\ UNCHANGED retry
    /\ StoreUnchanged

\* one call of runWithConcurrency, nothing else running
InitPool ==
    /\ Init
    /\ file = NoFile

NextPool ==
    \/ \E n \in 0..MaxItems, c \in Concurrencies : PoolCall(n, c)
    \/ \E r \in Runners : WorkerResolves(r)
    \/ \E r \in Runners : WorkerRejects(r)
    \/ PoolReturns

SpecPool == InitPool /\ [][NextPool]_vars

(***************************************************************************)
(* withRetry (route.ts:46-62).  An error carries err.status and the status *)
(* that /OpenAI API error (\d+)/ finds in err.message, 0 when there is     *)
(* none.                                                                   *)
(***************************************************************************)
\* the errors fn can throw on its attempt number a
Errors(a) ==
    {[kind |-> "error", attempt |-> a, status |-> s, msg |-> m] :
        s \in {0, 400, 429, 503}, m \in {0, 500, 502}}

\* err?.status || (err?.message && regex.exec(err.message)?.[1]), then
\* status ? Number(status) : undefined; 0 stands for undefined
StatusNum(err) == IF err.status # 0 THEN err.status ELSE err.msg

\* give up only after the last attempt
ShouldStop_LastOnly(i, retries, statusNum) == i = retries - 1

\* i === retries - 1 || (statusNum && ![429, 502, 503, 504].includes(statusNum))
ShouldStop(i, retries, statusNum) ==
    \/ i = retries - 1
    \/ statusNum # 0 /\ statusNum \notin {429, 502, 503, 504}

\* the head of the for loop with counter i: call fn when i < retries,
\* otherwise throw lastErr
LoopRetry(rt, i) ==
    IF i < rt.retries
    THEN [rt EXCEPT !.pc = "calling", !.i = i, !.calls = @ + 1]
    ELSE [rt EXCEPT !.pc = "done", !.i = i,
                    !.result = [rt.lastErr EXCEPT !.kind = "thrown"]]

\* withRetry(fn, retries, baseDelay), up to the first await fn()
RetryCall(retries) ==
    /\ retry.pc = "idle"
    /\ retry' = LoopRetry([RetryIdle EXCEPT !.retries = retries], 0)
    /\ UNCHANGED pool
    /\ StoreUnchanged

\* fn resolves: return await fn()
FnResolves ==
    /\ retry.pc = "calling"
    /\ LET ok == [kind |-> "ok", attempt |-> retry.calls, status |-> 0, msg |-> 0] IN
       retry' = [retry EXCEPT !.pc = "done", !.log = Append(@, ok),
                              !.result = [ok EXCEPT !.kind = "returned"]]
    /\ UNCHANGED pool
    /\ StoreUnchanged

\* fn rejects: the catch keeps the error, then breaks or sleeps
FnRejects ==
    /\ retry.pc = "calling"
    /\ \E err \in Errors(retry.calls) :
          LET rt == [retry EXCEPT !.lastErr = err, !.log = Append(@, err)] IN
          retry' = IF ShouldStop(retry.i, retry.retries, StatusNum(err))
                   THEN [rt EXCEPT !.pc = "done",
                                   !.result = [err EXCEPT !.kind = "thrown"]]
                   ELSE [rt EXCEPT !.pc = "sleeping"]
    /\ UNCHANGED pool
    /\ StoreUnchanged

\* await sleep(delay) is over: i++ and the loop goes on
SleepDone ==
    /\ retry.pc = "sleeping"
    /\ retry' = LoopRetry(retry, retry.i + 1)
    /\ UNCHANGED pool
    /\ StoreUnchanged

NextRetry ==
    \/ \E retries \in 0..MaxRetries : RetryCall(retries)
    \/ FnResolves
    \/ FnRejects
    \/ SleepDone

SpecRetry == InitPool /\ [][NextRetry]_vars

(***************************************************************************)
(* Properties.                                                             *)
(***************************************************************************)
\* the request contexts whose call of op has settled and not yet resumed
Settled(op) == {c \in Callers : call[c].op = op /\ call[c].pc = "settled"}

\* the ids of the reports of a sequence
Ids(rs) == {rs[n].id : n \in 1..Len(rs)}

\* C1: when loadReports() is called several times concurrently, exactly one
\* load sequence runs: at no time are two calls inside the load sequence
\* (between the parse of the corpus and the end of the embedding pass).
C1_OneLoadSequence ==
    Cardinality({c \in Callers : InLoad(c)}) <= 1

\* C2: a retrieval with 1 <= k <= number of embedded reports returns exactly
\* k of the embedded reports, each with its cosine similarity to the query
\* vector, in descending order of score, and no report left out has a
\* strictly higher score than a report in the result.
C2_TopK ==
    \A c \in Settled("retrieve") :
        LET cl    == call[c]
            q     == EmbedVec(cl.query)
            value == cl.value
            valid == cl.valid
        IN  (cl.outcome = "ok" /\ 1 <= cl.topK /\ cl.topK <= Len(valid)) =>
              /\ Len(value) = cl.topK
              /\ Cardinality(Ids(value)) = cl.topK
              /\ \A n \in 1..Len(value) :
                    \E m \in 1..Len(valid) :
                        /\ value[n].id = valid[m].id
                        /\ value[n].text = valid[m].text
                        /\ value[n].embedding = valid[m].embedding
                        /\ value[n].score = cosineSimilarity(q, valid[m].embedding)
              /\ \A n \in 1..(Len(value) - 1) :
                    ~ScoreGT(value[n + 1].score, value[n].score)
              /\ \A m \in 1..Len(valid) :
                    valid[m].id \notin Ids(value) =>
                        \A n \in 1..Len(value) :
                            ~ScoreGT(cosineSimilarity(q, valid[m].embedding), value[n].score)

\* C2 witness: a retrieval returned fewer reports than are embedded, and the
\* best report is not the first report of the corpus.
C2_Witness ==
    \E c \in Settled("retrieve") :
        /\ call[c].outcome = "ok"
        /\ 1 <= call[c].topK
        /\ call[c].topK < Len(call[c].valid)
        /\ call[c].value[1].id # call[c].valid[1].id

\* C3: when the embedding fails for some but not all records of a load, the
\* load returns normally with the store marked loaded, every failed record
\* has an empty embedding and every other record a non-empty one.
C3_PartialFailure ==
    \A c \in Settled("load") :
        (call[c].failIds # {} /\ call[c].okIds # {}) =>
            /\ call[c].outcome = "ok"
            /\ isLoaded
            /\ \A n \in 1..Len(Reports) :
                  /\ Reports[n].id \in call[c].failIds => Reports[n].embedding = <<>>
                  /\ Reports[n].id \notin call[c].failIds => Reports[n].embedding # <<>>

\* C4: every report a retrieval returns has a non-empty embedding.
C4_OnlyEmbedded ==
    \A c \in Settled("retrieve") :
        \A n \in 1..Len(call[c].value) :
            /\ Len(call[c].value[n].embedding) > 0
            /\ call[c].value[n].id \in Ids(call[c].valid)

\* C4 witness: a retrieval asked for more reports than are embedded, on a
\* store that holds a report without embedding, and returned the others.
C4_Witness ==
    \E c \in Settled("retrieve") :
        /\ call[c].outcome = "ok"
        /\ call[c].total > Len(call[c].valid)
        /\ call[c].topK > Len(call[c].valid)
        /\ Len(call[c].value) = Len(call[c].valid)

\* C5: a load that reaches the end of the embedding pass with no embedded
\* report in the store throws, and the store is not marked loaded.
C5_NoEmbeddingsNotLoaded ==
    \A c \in Settled("load") :
        (/\ call[c].ranLoad
         /\ call[c].err \notin {"FileNotFound", "ModelLoadingFailed"}
         /\ successfulEmbeddings(Reports) = 0) =>
            /\ call[c].outcome = "error"
            /\ ~isLoaded

\* C6: a retrieval called while no loadReports() call has returned normally
\* throws the not-loaded error at once, without calling the embedding model
\* and without touching the store or starting a load.
C6_NotLoadedGuard ==
    [][\A c \in Callers : \A query \in Queries, topK \in TopKs :
          (/\ ~loadSucceeded
           /\ call[c].pc = "idle"
           /\ call'[c].op = "retrieve"
           /\ CallRetrieve(c, query, topK)) =>
              /\ call'[c].pc = "settled"
              /\ call'[c].outcome = "error"
              /\ call'[c].err = "NotLoaded"
              /\ call'[c].nEmbed = 0
              /\ UNCHANGED <<file, heap, reports, embeddingsModel, isLoaded>>
              /\ \A d \in Callers \ {c} : call'[d] = call[d]]_vars

\* C6 witness: a retrieval was refused while a load was in flight that had
\* already initialised the model.
C6_Witness ==
    \E c \in Settled("retrieve") :
        /\ ~call[c].loadedBefore
        /\ call[c].err = "NotLoaded"
        /\ embeddingsModel
        /\ \E d \in Callers : call[d].pc = "awaitEmbed"

\* C7: a retrieval with an empty or whitespace-only query throws an
\* invalid-query error and never calls the embedding model (on a store that
\* is not loaded the not-loaded error may come first).
C7_BlankQueryRejected ==
    \A c \in Callers :
        (call[c].op = "retrieve" /\ Trim(call[c].query) = <<>>) =>
            /\ call[c].nEmbed = 0
            /\ call[c].pc = "settled"
            /\ call[c].outcome = "error"
            /\ call[c].loadedBefore => call[c].err = "InvalidQuery"

\* C8: the result of a retrieval is never longer than k (a length is never
\* negative: for k < 0 this is read as "empty") nor than the number of
\* embedded reports, and for k above that number it has exactly that length.
C8_LengthBound ==
    \A c \in Settled("retrieve") :
        call[c].outcome = "ok" =>
            /\ Len(call[c].value) <= Max(call[c].topK, 0)
            /\ Len(call[c].value) <= Len(call[c].valid)
            /\ call[c].topK > Len(call[c].valid) => Len(call[c].value) = Len(call[c].valid)

\* C9: a retrieval with k <= 0 that does not fail for another reason returns
\* the empty sequence.
C9_NonPositiveK ==
    \A c \in Settled("retrieve") :
        (call[c].outcome = "ok" /\ call[c].topK <= 0) => call[c].value = <<>>

\* C10: loadReports() called on a loaded store returns at once and changes
\* nothing: it does not read the corpus, does not call the embedding model,
\* and leaves the reports, the model handle and the flag as they are.
C10_LoadedNoOp ==
    [][\A c \in Callers :
          (isLoaded /\ (CallLoadReports(c) \/ (CallInit(c) /\ ~initialized))) =>
              /\ UNCHANGED <<file, heap, reports, embeddingsModel, isLoaded>>
              /\ call'[c].pc = "settled"
              /\ call'[c].outcome = "ok"
              /\ call'[c].nEmbed = 0
              /\ ~call'[c].ranLoad
              /\ \A d \in Callers \ {c} : call'[d] = call[d]]_vars

\* C10 witness: a loadReports() call on a loaded store has returned without
\* running the load sequence.
C10_Witness ==
    \E c \in Settled("load") :
        /\ isLoaded
        /\ call[c].loadedBefore
        /\ call[c].outcome = "ok"
        /\ ~call[c].ranLoad
        /\ \E n \in 1..Len(Reports) : Reports[n].embedding # <<>>

\* s >= t as numbers (false when either is NaN)
ScoreGE(s, t) == ~IsNaN(s) /\ ~IsNaN(t) /\ Signed(s) * t.nn >= Signed(t) * s.nn

\* s = t as numbers
ScoreEQ(s, t) == ScoreGE(s, t) /\ ScoreGE(t, s)

\* the position in rs of the report with this id
PosOf(rs, id) == CHOOSE m \in 1..Len(rs) : rs[m].id = id

\* C11: in every sequence a retrieval returns, the scores are non-increasing:
\* score(r[i]) >= score(r[i+1]) for consecutive results.
C11_ScoresNonIncreasing ==
    \A c \in Settled("retrieve") :
        \A n \in 1..(Len(call[c].value) - 1) :
            ScoreGE(call[c].value[n].score, call[c].value[n + 1].score)

\* C11 witness: a retrieval returned two reports with different scores, in
\* the opposite of their order in the corpus.
C11_Witness ==
    \E c \in Settled("retrieve") :
        /\ call[c].outcome = "ok"
        /\ Len(call[c].value) >= 2
        /\ ScoreGT(call[c].value[1].score, call[c].value[2].score)
        /\ PosOf(call[c].valid, call[c].value[1].id) > PosOf(call[c].valid, call[c].value[2].id)

\* C12: reports with equal scores appear in the result in their order in the
\* corpus, and a report left out that ties with a report in the result comes
\* after it in the corpus.  With C11 and the length of the result this fixes
\* the result as a function of the query vector, k and the corpus, so two
\* calls with the same three return the same sequence.
C12_StableTieBreak ==
    \A c \in Settled("retrieve") :
        LET value == call[c].value
            valid == call[c].valid
            q     == EmbedVec(call[c].query)
        IN  call[c].outcome = "ok" =>
              /\ \A n, m \in 1..Len(value) :
                    (n < m /\ ScoreEQ(value[n].score, value[m].score)) =>
                        PosOf(valid, value[n].id) < PosOf(valid, value[m].id)
              /\ \A m \in 1..Len(valid) :
                    valid[m].id \notin Ids(value) =>
                        \A n \in 1..Len(value) :
                            ScoreEQ(value[n].score, cosineSimilarity(q, valid[m].embedding)) =>
                                PosOf(valid, value[n].id) < m

\* C12 witness: a retrieval returned two reports with the same score that
\* have different texts.
C12_Witness ==
    \E c \in Settled("retrieve") :
        /\ call[c].outcome = "ok"
        /\ Len(call[c].value) >= 2
        /\ ScoreEQ(call[c].value[1].score, call[c].value[2].score)
        /\ call[c].value[1].text # call[c].value[2].text

\* C13: retrieveRelevantReports() is read-only on the store: no step of a
\* retrieval (a step that enters the call or moves it on: its head, the
\* return after the query embedding, the throw after the query embedding
\* failed) changes the reports array, a report, the loaded flag or the model
\* handle.
C13_RetrieveReadOnly ==
    [][\A c \in Callers :
          (call'[c].op = "retrieve" /\ call'[c] # call[c]) =>
              UNCHANGED <<file, heap, reports, embeddingsModel, isLoaded>>]_vars

\* C13 witness: a retrieval has returned reports in another order than the
\* one of the store, and the store is still in the order of the corpus.
C13_Witness ==
    \E c \in Settled("retrieve") :
        /\ call[c].outcome = "ok"
        /\ Len(call[c].value) >= 2
        /\ call[c].value[1].id > call[c].value[2].id
        /\ \A n \in 1..(Len(Reports) - 1) : Reports[n].id < Reports[n + 1].id

\* C14: once the store is marked loaded, the reports and their embeddings
\* never change again: no step taken with isLoaded set changes the flag or
\* the array `reports` refers to.
C14_ImmutableOnceLoaded ==
    [][isLoaded => (isLoaded' /\ Reports' = Reports)]_vars

\* C15: when an embedding call of a load fails with a rate-limit signal, the
\* loader retries the same record: its next step is another embedding call
\* for that record, which has not been given up.
C15_RateLimitRetry ==
    [][\A c \in Callers :
          EmbedRateLimited(c) =>
              /\ call'[c].pc = "awaitEmbed"
              /\ call'[c].bArr = call[c].bArr
              /\ call'[c].j = call[c].j
              /\ call'[c].failIds = call[c].failIds]_vars

\* C16: on a loaded store, when the embedding of the query fails the
\* retrieval throws that error to its caller and returns no result.
C16_QueryEmbeddingFailurePropagates ==
    [][\A c \in Callers :
          QueryEmbedFails(c) =>
              /\ call'[c].pc = "settled"
              /\ call'[c].outcome = "error"
              /\ call'[c].err = "EmbeddingFailed"
              /\ call'[c].value = <<>>]_vars

\* C16 witness: a retrieval has failed on the query embedding while the store
\* was loaded and held embedded reports.
C16_Witness ==
    \E c \in Settled("retrieve") :
        /\ call[c].err = "EmbeddingFailed"
        /\ call[c].outcome = "error"
        /\ isLoaded
        /\ successfulEmbeddings(Reports) > 0

\* C17: in the chat endpoint a failed retrieval does not fail the request:
\* the handler goes on to the LLM completion with empty context text and an
\* empty usedReports list, and the status of the response is 200 when the
\* completion resolves and 500 when it rejects.
C17_RetrievalFailureCaught ==
    post.retrievalFailed =>
        /\ post.pc \in {"awaitLLM", "responded"}
        /\ post.contextText = <<>>
        /\ post.usedReports = <<>>
        /\ post.pc = "responded" =>
              /\ post.llm # "none"
              /\ post.status = IF post.llm = "ok" THEN 200 ELSE 500

\* C17 witness: a request whose retrieval failed on a store that holds
\* embedded reports has been answered with status 200.
C17_Witness ==
    /\ post.pc = "responded"
    /\ post.retrievalFailed
    /\ post.status = 200
    /\ isLoaded
    /\ successfulEmbeddings(Reports) > 0

\* C18: every element a retrieval returns carries the report's id, text and
\* score, and every entry of usedReports carries the identifier of the
\* result it was built from: a defined value equal to that report's id.
C18_UsedReportsCarryId ==
    /\ \A c \in Settled("retrieve") :
          \A n \in 1..Len(call[c].value) :
              {"id", "text", "score"} \subseteq DOMAIN call[c].value[n]
    /\ Len(post.usedReports) = Len(post.relevantReports)
    /\ \A n \in 1..Len(post.usedReports) :
          /\ post.usedReports[n].reportId.defined
          /\ post.usedReports[n].reportId.v = post.relevantReports[n].id

\* the number a line has after the empty lines are dropped: the count of the
\* lines before it that are not empty
LineNo(ls, m) == Cardinality({k \in 1..(m - 1) : ls[k].kind # "empty"})

\* the field of a record that matches first: ContentText when it is present
\* and not the empty string, else text
Chosen(line) == IF line.ContentText # <<>> THEN line.ContentText ELSE line.text

\* t is not empty after trimming
HasText(t) == \E k \in 1..Len(t) : t[k] # " "

\* the lines that parse as a record and have usable text
UsableLines(ls) == {m \in 1..Len(ls) : ls[m].kind = "rec" /\ HasText(Chosen(ls[m]))}

\* t is s without the whitespace at its two ends
IsTrimOf(t, s) ==
    \E i, j \in 0..Len(s) :
        /\ i + Len(t) + j = Len(s)
        /\ t = SubSeq(s, i + 1, i + Len(t))
        /\ \A k \in 1..i : s[k] = " "
        /\ \A k \in (Len(s) - j + 1)..Len(s) : s[k] = " "
        /\ t # <<>> => (t[1] # " " /\ t[Len(t)] # " ")

\* a load has parsed the corpus (every call of SpecParse is a loadReports()
\* call, and the first one finds the store not loaded)
Parsed == file.exists /\ nCalls > 0

\* C19: a line that does not parse as a record is skipped and the load goes
\* on with the remaining lines: the reports of the store are exactly the
\* records that parse and have usable text, in the order of the file, each
\* numbered by its line, and a load fails only when the model does not load
\* or when it has embedded no record.
C19_MalformedLineSkipped ==
    Parsed =>
        /\ Len(Reports) = Cardinality(UsableLines(file.lines))
        /\ \A m \in UsableLines(file.lines) :
              \E n \in 1..Len(Reports) : Reports[n].id = LineNo(file.lines, m)
        /\ \A n \in 1..(Len(Reports) - 1) : Reports[n].id < Reports[n + 1].id
        /\ \A c \in Settled("load") :
              call[c].outcome = "error" =>
                  \/ call[c].err = "ModelLoadingFailed"
                  \/ call[c].err = "NoEmbeddings" /\ call[c].okIds = {}

\* C19 witness: a load has returned normally on a corpus with a malformed
\* line followed by a usable record, and that record is embedded.
C19_Witness ==
    \E c \in Settled("load") :
        /\ call[c].outcome = "ok"
        /\ \E m1, m2 \in 1..Len(file.lines) :
              /\ m1 < m2
              /\ file.lines[m1].kind = "bad"
              /\ m2 \in UsableLines(file.lines)
              /\ \E n \in 1..Len(Reports) :
                    /\ Reports[n].id = LineNo(file.lines, m2)
                    /\ Reports[n].embedding # <<>>

\* C20: the text of a record is taken from the first field that matches
\* (ContentText, then text); the record is skipped exactly when that text is
\* empty after trimming; the text of a stored report is the chosen text
\* trimmed, and it is never empty.
C20_TextField ==
    Parsed =>
        /\ \A m \in 1..Len(file.lines) :
              file.lines[m].kind = "rec" =>
                  LET chosen == Chosen(file.lines[m])
                      stored == {n \in 1..Len(Reports) : Reports[n].id = LineNo(file.lines, m)}
                  IN  /\ (stored # {}) <=> HasText(chosen)
                      /\ \A n \in stored : IsTrimOf(Reports[n].text, chosen)
        /\ \A n \in 1..Len(Reports) :
              /\ Reports[n].text # <<>>
              /\ Reports[n].text[1] # " "
              /\ Reports[n].text[Len(Reports[n].text)] # " "

\* C20 witness: the corpus holds a record whose ContentText is whitespace
\* and whose text is usable, which is skipped, and a record without
\* ContentText whose text is stored trimmed.
C20_Witness ==
    /\ Parsed
    /\ \E m1, m2 \in 1..Len(file.lines) :
          /\ file.lines[m1] = Rec(<<" ">>, <<"a">>)
          /\ \A n \in 1..Len(Reports) : Reports[n].id # LineNo(file.lines, m1)
          /\ file.lines[m2] = Rec(<<>>, <<" ", "b">>)
          /\ \E n \in 1..Len(Reports) :
                /\ Reports[n].id = LineNo(file.lines, m2)
                /\ Reports[n].text = <<"b">>

\* C21: report ids are unique within the store, also when lines were
\* skipped: they are strictly increasing in store order, in every report
\* array a load has built.
C21_UniqueIds ==
    \A a \in Addrs :
        /\ \A n, m \in 1..Len(heap[a]) : n # m => heap[a][n].id # heap[a][m].id
        /\ \A n \in 1..(Len(heap[a]) - 1) : heap[a][n].id < heap[a][n + 1].id

\* C21 witness: the store holds two consecutive reports whose ids are not
\* contiguous: a line between them was skipped.
C21_Witness ==
    /\ Parsed
    /\ \E n \in 1..(Len(Reports) - 1) : Reports[n + 1].id > Reports[n].id + 1

\* reports.ts:246-253  getEmbeddingStats().embeddingDim: the length of the
\* embedding of the first report that has one, 0 when there is none
embeddingDim ==
    LET withEmbeddings == ValidReports(Reports)
    IN  IF Len(withEmbeddings) > 0 THEN Len(withEmbeddings[1].embedding) ELSE 0

\* C22: all reports with a non-empty embedding have embeddings of the same
\* length, the embedding dimension, and the query vector of a retrieval has
\* the length of every report vector it is scored against.
C22_OneDimension ==
    /\ \A n \in 1..Len(Reports) :
          Reports[n].embedding # <<>> => Len(Reports[n].embedding) = embeddingDim
    /\ \A c \in Settled("retrieve") :
          \A n \in 1..Len(call[c].valid) :
              Len(call[c].valid[n].embedding) = Len(EmbedVec(call[c].query))

\* C22 witness: a retrieval with the empty query has scored two reports
\* with different embeddings.
C22_Witness ==
    \E c \in Settled("retrieve") :
        /\ call[c].outcome = "ok"
        /\ call[c].query = <<>>
        /\ Len(call[c].valid) >= 2
        /\ call[c].valid[1].embedding # call[c].valid[2].embedding

C25_EmptyIndex ==
    \A c \in Settled("retrieve") :
        (call[c].nEmbed = 1 /\ call[c].err # "EmbeddingFailed" /\ call[c].valid = <<>>) =>
            /\ call[c].outcome = "error"
            /\ call[c].err = "NoValidEmbeddings"
            /\ call[c].value = <<>>

\* C25 witness: a retrieval has thrown the empty-index error on a store
\* that is marked loaded and holds reports.
C25_Witness ==
    \E c \in Settled("retrieve") :
        /\ call[c].err = "NoValidEmbeddings"
        /\ isLoaded
        /\ call[c].total > 0

\* C26: in every reachable state, overlapping loads included, a store that
\* is marked loaded holds at least one report with a non-empty embedding.
C26_LoadedHasEmbedding ==
    isLoaded => successfulEmbeddings(Reports) > 0

C24_EmbeddingCallsComplete ==
    \A c \in Callers :
        (call[c].pc \in {"awaitEmbed", "awaitQuery"}) ~> (call[c].pc = "settled")

\* the worker calls of runWithConcurrency that are in flight
InFlight == {r \in Runners : pool.runner[r].pc = "await"}

\* what C28 says of a call of runWithConcurrency: the worker is never called
\* twice for an item nor for an index past the items, at most
\* min(c, items.length) calls are in flight, the outcome of item k (value or
\* thrown error) is what results[k] holds, and when the call has resolved
\* every item has been given to the worker once and has its outcome stored
PoolContract ==
    /\ \A k \in Items : pool.invoked[k] <= (IF k < pool.n THEN 1 ELSE 0)
    /\ Cardinality(InFlight) <= Min(pool.c, pool.n)
    /\ \A k \in Items :
          pool.results[k] # Unset =>
             /\ pool.outcome[k] # "none"
             /\ pool.results[k] = [kind |-> pool.outcome[k], of |-> k]
    /\ pool.pc = "resolved" =>
          \A k \in Items : k < pool.n =>
             /\ pool.invoked[k] = 1
             /\ pool.outcome[k] # "none"
             /\ pool.results[k] # Unset

Fatal(e) ==
    LET known == {e.status, e.msg} \ {0} IN
    /\ known # {}
    /\ (IF e.status # 0 THEN e.status ELSE e.msg) \notin {429, 502, 503, 504}

\* C29: a call of withRetry(fn, retries, baseDelay) with retries >= 1 calls
\* fn at most retries times; every call after the first follows a failure
\* that was not fatal (status unknown or 429/502/503/504); after a success
\* no further call is made and the value of that attempt is returned; after
\* a fatal failure no further call is made; after a failure that is not
\* fatal another call is made unless it was attempt number retries; and on
\* giving up the error of the last attempt is thrown
C29_RetryPolicy ==
    retry.retries >= 1 =>
       LET log == retry.log
           n == Len(log)
       IN  /\ retry.calls <= retry.retries
           /\ n <= retry.calls
           /\ retry.calls <= n + 1
           /\ (retry.pc = "calling") = (retry.calls = n + 1)
           /\ \A k \in 1..n : log[k].attempt = k
           /\ \A k \in 1..(retry.calls - 1) :
                 log[k].kind = "error" /\ ~Fatal(log[k])
           /\ retry.pc = "sleeping" =>
                 /\ ~Fatal(log[n])
                 /\ n < retry.retries
           /\ retry.pc = "done" =>
                 /\ n >= 1
                 /\ IF log[n].kind = "ok"
                    THEN retry.result = [log[n] EXCEPT !.kind = "returned"]
                    ELSE /\ retry.result = [log[n] EXCEPT !.kind = "thrown"]
                         /\ Fatal(log[n]) \/ n = retry.retries

\* withRetry with three attempts allowed gave up after the second: the first
\* failed with no status, the second with a status that is not retried
C29_Witness ==
    /\ retry.pc = "done"
    /\ retry.retries = 3
    /\ Len(retry.log) = 2
    /\ retry.log[1].status = 0 /\ retry.log[1].msg = 0
    /\ Fatal(retry.log[2])
    /\ retry.result = [retry.log[2] EXCEPT !.kind = "thrown"]

\* the step answers 400 and starts nothing: no loadReports() or
\* retrieveRelevantReports() call (hence no embedding call), no LLM call, and
\* the store and the initialized flag are as before
RejectedAtOnce ==
    /\ post'.pc = "responded"
    /\ post'.status = 400
    /\ post'.llm = "none"
    /\ post'.usedReports = PostIdle.usedReports
    /\ UNCHANGED <<file, heap, reports, embeddingsModel, isLoaded, initialized,
                   call, nCalls, loadSucceeded>>

\* C30: a request whose query is missing, not a string or empty after
\* trimming is answered with 400 in the step that reads it, before init():
\* no corpus load is started, no embedding call and no LLM call is made;
\* and a 400 is only ever produced by such a step
C30_InvalidQueryRejectedBeforeInit ==
    [][/\ \A body \in Bodies :
             (PostRequest(body) /\ body.json /\ InvalidQuery(body.query))
                => RejectedAtOnce
       /\ (post'.status = 400 /\ post' # post)
             => (post.pc = "idle" /\ RejectedAtOnce)]_vars

\* a request with an invalid query was answered 400 on a process with a
\* corpus file, before anything was loaded
C30_Witness ==
    /\ post.pc = "responded"
    /\ post.status = 400
    /\ file.exists
    /\ ~initialized
    /\ ~isLoaded
    /\ nCalls = 0

====
